---- MODULE Spec2Model ----
(***************************************************************************)
(* Model of coding_agent/coding_agent.py: the ApprovalTracker, the         *)
(* WorkspaceEditor (create_file / update_file / delete_file behind the     *)
(* approval gate and the workspace containment check) and the              *)
(* ShellExecutor (command rewriting, dev-server pre-check, timeout         *)
(* policies).                                                              *)
(*                                                                         *)
(* Text is modelled as sequences.  Shell commands and prompt answers are   *)
(* sequences of one-character strings; path strings and diffs are          *)
(* sequences of tokens (a path token is "/" or one component, a diff       *)
(* token is one diff line).                                                *)
(***************************************************************************)
EXTENDS Integers, Sequences, FiniteSets, TLC

VARIABLES
    fs,          \* the filesystem: absolute path (sequence of names) -> node
    approved,    \* ApprovalTracker._approved, shared by both editors
    autoApprove, \* WorkspaceEditor._auto_approve of each editor
    pending,     \* the editor call blocked in input(), or NoCall
    last,        \* what the last completed editor call did
    nOps,        \* editor calls started so far
    cfg,         \* the ShellExecutor's configuration
    batch,       \* the executor call in progress, or Idle
    procs,       \* every process spawned so far, by pid
    returned,    \* the ShellResult.output of the last completed executor call
    calc         \* a function of the program applied to arguments, and its result

vars == <<fs, approved, autoApprove, pending, last, nOps, cfg, batch, procs, returned, calc>>

editorVars == <<fs, approved, autoApprove, pending, last, nOps>>
shellVars == <<cfg, batch, procs, returned>>
pureVars == <<calc>>

None == "None"

-----------------------------------------------------------------------------
(* Sequence helpers *)

Front(s) == SubSeq(s, 1, Len(s) - 1)

Last(s) == s[Len(s)]

IsPrefix(p, s) == Len(p) <= Len(s) /\ SubSeq(s, 1, Len(p)) = p

\* s[i..i+Len(w)-1] = w
MatchesAt(s, i, w) ==
    /\ i >= 1
    /\ i + Len(w) - 1 <= Len(s)
    /\ SubSeq(s, i, i + Len(w) - 1) = w

\* Python's "w in s"
Contains(s, w) == \E i \in 1..(Len(s) + 1) : MatchesAt(s, i, w)

\* Python's s.endswith(w)
EndsWith(s, w) == Len(w) <= Len(s) /\ SubSeq(s, Len(s) - Len(w) + 1, Len(s)) = w

\* a string literal as the sequence of its characters
Chars(str) == [i \in 1..Len(str) |-> SubSeq(str, i, i)]

\* what str.strip() removes and \s matches
Whitespace == {" ", "\t"}

UpperCase == Chars("ABCDEFGHIJKLMNOPQRSTUVWXYZ")

LowerCase == Chars("abcdefghijklmnopqrstuvwxyz")

Digits == {"0", "1", "2", "3", "4", "5", "6", "7", "8", "9"}

LowerChar(c) ==
    IF \E i \in 1..Len(UpperCase) : UpperCase[i] = c
    THEN LowerCase[CHOOSE i \in 1..Len(UpperCase) : UpperCase[i] = c]
    ELSE c

\* str.lower()
Lower(s) == [i \in 1..Len(s) |-> LowerChar(s[i])]

RECURSIVE LStrip(_)
LStrip(s) == IF s # <<>> /\ s[1] \in Whitespace THEN LStrip(Tail(s)) ELSE s

RECURSIVE RStrip(_)
RStrip(s) == IF s # <<>> /\ Last(s) \in Whitespace THEN RStrip(Front(s)) ELSE s

\* str.strip()
Strip(s) == LStrip(RStrip(s))

-----------------------------------------------------------------------------
(* The filesystem and pathlib *)

Dir == [kind |-> "dir", content |-> <<>>, target |-> <<>>]

File(content) == [kind |-> "file", content |-> content, target |-> <<>>]

\* a symbolic link to the absolute path target
Link(target) == [kind |-> "link", content |-> <<>>, target |-> target]

\* Path("./mnt").resolve(): the workspace root
WorkspaceRoot == <<"w">>

\* what exists outside the workspace
OutsideFiles == (<<>> :> Dir) @@ (<<"o">> :> Dir) @@ (<<"o", "s">> :> File(<<"S">>))

\* the root has not been created yet
FsNoRoot == OutsideFiles

\* the root exists and holds a link out of the workspace and a link into it
FsWithLinks ==
    OutsideFiles @@ (<<"w">> :> Dir) @@ (<<"w", "l">> :> Link(<<"o">>))
                 @@ (<<"w", "i">> :> Link(<<"w", "d">>))

Exists(f, p) == p \in DOMAIN f

IsDir(f, p) == Exists(f, p) /\ f[p].kind = "dir"

IsLink(f, p) == Exists(f, p) /\ f[p].kind = "link"

\* Path(value).is_absolute()
is_absolute(value) == value # <<>> /\ value[1] = "/"

\* Path(value).parts without the root: empty and "." components are dropped
Parts(value) == SelectSeq(value, LAMBDA t : t # "/" /\ t # ".")

\* a resolve() that normalises the path but does not follow links
RECURSIVE RealpathLiteral(_, _, _)
RealpathLiteral(f, path, rest) ==
    IF rest = <<>> THEN path
    ELSE IF rest[1] = ".." THEN
        RealpathLiteral(f, IF path = <<>> THEN <<>> ELSE Front(path), Tail(rest))
    ELSE RealpathLiteral(f, Append(path, rest[1]), Tail(rest))

\* Path.resolve() (os.path.realpath, not strict): ".." pops the path resolved so
\* far, a link is replaced by its target, a missing component is kept as it is
RECURSIVE Realpath(_, _, _)
Realpath(f, path, rest) ==
    IF rest = <<>> THEN path
    ELSE IF rest[1] = ".." THEN
        Realpath(f, IF path = <<>> THEN <<>> ELSE Front(path), Tail(rest))
    ELSE IF IsLink(f, Append(path, rest[1])) THEN
        Realpath(f, <<>>, f[Append(path, rest[1])].target \o Tail(rest))
    ELSE Realpath(f, Append(path, rest[1]), Tail(rest))

\* target.resolve() of an absolute path
Resolve(f, parts) == Realpath(f, <<>>, parts)

\* target.relative_to(root) succeeds
IsRelativeTo(target, root) == IsPrefix(root, target)

\* PurePath.as_posix() of target.relative_to(root)
as_posix(parts) ==
    IF parts = <<>> THEN <<".">>
    ELSE [i \in 1..(2 * Len(parts) - 1) |->
            IF i % 2 = 1 THEN parts[(i + 1) \div 2] ELSE "/"]

\* the longest existing ancestor of p (p itself included)
RECURSIVE NearestExisting(_, _)
NearestExisting(f, p) == IF Exists(f, p) \/ p = <<>> THEN p ELSE NearestExisting(f, Front(p))

\* Path.mkdir(parents=True, exist_ok=True)
mkdir_parents(f, d) ==
    IF Exists(f, d) THEN
        IF IsDir(f, d) THEN [ok |-> TRUE, err |-> None, fs |-> f]
        ELSE [ok |-> FALSE, err |-> "FileExistsError", fs |-> f]
    ELSE IF ~IsDir(f, NearestExisting(f, d)) THEN
        [ok |-> FALSE, err |-> "NotADirectoryError", fs |-> f]
    ELSE
        LET base == Len(NearestExisting(f, d))
            made == {SubSeq(d, 1, n) : n \in (base + 1)..Len(d)}
        IN [ok |-> TRUE, err |-> None, fs |-> f @@ [p \in made |-> Dir]]

\* Path.write_text(content)
write_text(f, target, content) ==
    IF IsDir(f, target) THEN [ok |-> FALSE, err |-> "IsADirectoryError", fs |-> f]
    ELSE IF Exists(f, target) THEN
        [ok |-> TRUE, err |-> None, fs |-> [f EXCEPT ![target] = File(content)]]
    ELSE IF target = <<>> \/ ~Exists(f, Front(target)) THEN
        [ok |-> FALSE, err |-> "FileNotFoundError", fs |-> f]
    ELSE IF ~IsDir(f, Front(target)) THEN
        [ok |-> FALSE, err |-> "NotADirectoryError", fs |-> f]
    ELSE [ok |-> TRUE, err |-> None, fs |-> f @@ (target :> File(content))]

\* a line of a file as text mode reads it: a carriage return ends a line too
SplitLines(line) == IF line = "A\rB" THEN <<"A", "B">> ELSE <<line>>

\* the newline translation of a file opened for reading with newline=None
RECURSIVE universal_newlines(_)
universal_newlines(content) ==
    IF content = <<>> THEN <<>>
    ELSE SplitLines(Head(content)) \o universal_newlines(Tail(content))

\* Path.read_text()
read_text(f, target) ==
    IF IsDir(f, target) THEN [ok |-> FALSE, err |-> "IsADirectoryError", content |-> <<>>]
    ELSE IF Exists(f, target) THEN
        [ok |-> TRUE, err |-> None, content |-> universal_newlines(f[target].content)]
    ELSE IF target # <<>> /\ Exists(f, NearestExisting(f, Front(target)))
            /\ ~IsDir(f, NearestExisting(f, Front(target))) THEN
        [ok |-> FALSE, err |-> "NotADirectoryError", content |-> <<>>]
    ELSE [ok |-> FALSE, err |-> "FileNotFoundError", content |-> <<>>]

\* Path.unlink(missing_ok=True): only FileNotFoundError is swallowed
unlink_missing_ok(f, target) ==
    IF IsDir(f, target) THEN [ok |-> FALSE, err |-> "IsADirectoryError", fs |-> f]
    ELSE IF Exists(f, target) THEN
        [ok |-> TRUE, err |-> None, fs |-> [p \in DOMAIN f \ {target} |-> f[p]]]
    ELSE IF target # <<>> /\ ~IsDir(f, NearestExisting(f, Front(target))) THEN
        [ok |-> FALSE, err |-> "NotADirectoryError", fs |-> f]
    ELSE [ok |-> TRUE, err |-> None, fs |-> f]

-----------------------------------------------------------------------------
(* agents.apply_diff, as far as the editor depends on it: a diff is a        *)
(* sequence of lines, each an operation character and a text                *)

DiffLineOp ==
    ("+A" :> "+") @@ ("+B" :> "+") @@ ("-A" :> "-") @@ (" A" :> " ") @@ ("+A\rB" :> "+")

DiffLineText ==
    ("+A" :> "A") @@ ("+B" :> "B") @@ ("-A" :> "A") @@ (" A" :> "A") @@ ("+A\rB" :> "A\rB")

RECURSIVE ApplyHunk(_, _, _)
ApplyHunk(input, diff, out) ==
    IF diff = <<>> THEN [ok |-> TRUE, content |-> out \o input]
    ELSE IF DiffLineOp[diff[1]] = "+" THEN
        ApplyHunk(input, Tail(diff), Append(out, DiffLineText[diff[1]]))
    ELSE IF input = <<>> \/ input[1] # DiffLineText[diff[1]] THEN
        [ok |-> FALSE, content |-> <<>>]
    ELSE IF DiffLineOp[diff[1]] = "-" THEN ApplyHunk(Tail(input), Tail(diff), out)
    ELSE ApplyHunk(Tail(input), Tail(diff), Append(out, input[1]))

\* an apply_diff that leaves the input as it is when the diff does not apply
apply_diff_lenient(input, diff, mode) ==
    IF ApplyHunk(input, diff, <<>>).ok THEN ApplyHunk(input, diff, <<>>)
    ELSE [ok |-> TRUE, content |-> input]

\* apply_diff(input, diff, mode): in mode "create" every line must be an added line
apply_diff(input, diff, mode) ==
    IF mode = "create" /\ \E i \in 1..Len(diff) : DiffLineOp[diff[i]] # "+"
    THEN [ok |-> FALSE, content |-> <<>>]
    ELSE ApplyHunk(input, diff, <<>>)

-----------------------------------------------------------------------------
(* ApprovalTracker *)

NUL == "\\0"

NoDiff == [none |-> TRUE, text |-> <<>>]

DiffOf(text) == [none |-> FALSE, text |-> text]

\* operation.diff or ""
DiffOrEmpty(diff) == IF diff.none THEN <<>> ELSE diff.text

\* str.encode("utf-8") of a string
encode(text) == Chars(text)

\* a hasher fed the three fields with nothing between them
HashInputUnseparated(type, relative_path, diff) ==
    encode(type) \o relative_path \o DiffOrEmpty(diff)

\* the bytes fed to the hasher: type, NUL, relative path, NUL, diff
HashInput(type, relative_path, diff) ==
    encode(type) \o <<NUL>> \o relative_path \o <<NUL>> \o DiffOrEmpty(diff)

\* hashlib.sha256(...).hexdigest(), taken to be free of collisions
hexdigest(bytes) == bytes

\* ApprovalTracker.fingerprint
fingerprint(operation, relative_path) ==
    hexdigest(HashInput(operation.type, relative_path, operation.diff))

\* a remember() that keeps only the newest fingerprint
rememberLatestOnly(set, fp) == {fp}

\* a remember() that records nothing
rememberNothing(set, fp) == set

\* ApprovalTracker.remember
remember(set, fp) == set \cup {fp}

\* ApprovalTracker.is_approved
is_approved(set, fp) == fp \in set

-----------------------------------------------------------------------------
(* WorkspaceEditor *)

Editors == {"auto", "manual"}

\* the values of APPLY_PATCH_AUTO_APPROVE
EnvAutoApprove == {None, "0", "1"}

\* WorkspaceEditor.__init__: the flag each editor is constructed with
CtorFlag == ("auto" :> TRUE) @@ ("manual" :> FALSE)

\* self._auto_approve
AutoApproveOf(flag, env) == flag \/ env = "1"

\* WorkspaceEditor._resolve
_resolve(f, relative, ensure_parent) ==
    LET candidate == Parts(relative)
        joined == IF is_absolute(relative) THEN candidate ELSE WorkspaceRoot \o candidate
        target == Resolve(f, joined)
    IN IF ~IsRelativeTo(target, WorkspaceRoot) THEN
           [ok |-> FALSE, err |-> "OutsideWorkspace", target |-> target, fs |-> f]
       ELSE IF ensure_parent THEN
           LET m == mkdir_parents(f, IF target = <<>> THEN <<>> ELSE Front(target))
           IN [ok |-> m.ok, err |-> m.err, target |-> target, fs |-> m.fs]
       ELSE [ok |-> TRUE, err |-> None, target |-> target, fs |-> f]

\* WorkspaceEditor._relative_path
_relative_path(f, value) ==
    LET r == _resolve(f, value, FALSE)
    IN [ok |-> r.ok, err |-> r.err, fs |-> r.fs,
        relative |-> IF r.ok THEN as_posix(SubSeq(r.target, Len(WorkspaceRoot) + 1, Len(r.target)))
                     ELSE <<>>]

\* an approval that is kept only when the edit succeeds
RecordedIfEditSucceeds(set, fp, result) ==
    IF result \in {"Created", "Updated", "Deleted"} THEN remember(set, fp) ELSE set

\* lines 85 and 97: the fingerprint is remembered inside _require_approval,
\* before the edit is attempted, and whatever the edit then does
Recorded(set, fp, result) == remember(set, fp)

\* a gate that any earlier approval opens
GateOpenForAnyApproval(auto, set, fp) == auto \/ set # {}

\* _require_approval, line 84: the gate lets the call through without a prompt
GateOpen(auto, set, fp) == auto \/ is_approved(set, fp)

\* a prompt that proceeds whatever the answer
AnswerAcceptedAlways(answer) == TRUE

\* a prompt that proceeds unless the answer is a no
AnswerAcceptedUnlessNo(answer) == Lower(Strip(answer)) \notin {<<"n">>, <<"n", "o">>}

\* _require_approval, lines 94-95: the answer that lets the call through
AnswerAccepted(answer) == Lower(Strip(answer)) \in {<<"y">>, <<"y", "e", "s">>}

\* create_file after the gate
create_file_body(f, operation) ==
    LET r == _resolve(f, operation.path, TRUE)
        c == apply_diff(<<>>, DiffOrEmpty(operation.diff), "create")
        w == write_text(r.fs, r.target, c.content)
    IN IF ~r.ok THEN [fs |-> r.fs, result |-> r.err]
       ELSE IF ~c.ok THEN [fs |-> r.fs, result |-> "PatchError"]
       ELSE [fs |-> w.fs, result |-> IF w.ok THEN "Created" ELSE w.err]

\* update_file after the gate
update_file_body(f, operation) ==
    LET r == _resolve(f, operation.path, FALSE)
        original == read_text(r.fs, r.target)
        patched == apply_diff(original.content, DiffOrEmpty(operation.diff), "default")
        w == write_text(r.fs, r.target, patched.content)
    IN IF ~r.ok THEN [fs |-> r.fs, result |-> r.err]
       ELSE IF ~original.ok THEN [fs |-> r.fs, result |-> original.err]
       ELSE IF ~patched.ok THEN [fs |-> r.fs, result |-> "PatchError"]
       ELSE [fs |-> w.fs, result |-> IF w.ok THEN "Updated" ELSE w.err]

\* delete_file after the gate
delete_file_body(f, operation) ==
    LET r == _resolve(f, operation.path, FALSE)
        u == unlink_missing_ok(r.fs, r.target)
    IN IF ~r.ok THEN [fs |-> r.fs, result |-> r.err]
       ELSE [fs |-> u.fs, result |-> IF u.ok THEN "Deleted" ELSE u.err]

\* ApplyPatchTool calls the method the operation's type names
AfterGate(f, operation) ==
    CASE operation.type = "create_file" -> create_file_body(f, operation)
      [] operation.type = "update_file" -> update_file_body(f, operation)
      [] operation.type = "delete_file" -> delete_file_body(f, operation)

-----------------------------------------------------------------------------
(* The editor's callers: the operations and answers the model draws from *)

MaxOps == 3

\* the paths of the operations, as the caller writes them
P_f == <<"f">>
P_d_f == <<"d", "/", "f">>
P_abs_f == <<"/", "w", "/", "f">>
P_d_up_f == <<"d", "/", "..", "/", "f">>
P_i_f == <<"i", "/", "f">>
P_root == <<".">>
P_f_x == <<"f", "/", "x">>
P_up_o_s == <<"..", "/", "o", "/", "s">>
P_abs_o_s == <<"/", "o", "/", "s">>
P_l_s == <<"l", "/", "s">>
P_l_n_x == <<"l", "/", "n", "/", "x">>

PathStrings == {P_f, P_d_f, P_abs_f, P_d_up_f, P_i_f, P_root, P_f_x,
                P_up_o_s, P_abs_o_s, P_l_s, P_l_n_x}

AddA == DiffOf(<<"+A">>)
AtoB == DiffOf(<<"-A", "+B">>)
AddACrB == DiffOf(<<"+A\rB">>)
EmptyDiff == DiffOf(<<>>)

Op(type, path, diff) == [type |-> type, path |-> path, diff |-> diff]

\* the operations the caller issues
Operations == {
    Op("create_file", P_f, AddA),
    Op("create_file", P_f, NoDiff),
    Op("create_file", P_f, AddACrB),
    Op("create_file", P_d_f, AddA),
    Op("create_file", P_i_f, AddA),
    Op("update_file", P_f, AtoB),
    Op("update_file", P_abs_f, AtoB),
    Op("update_file", P_f_x, AtoB),
    Op("delete_file", P_f, NoDiff),
    Op("delete_file", P_d_up_f, EmptyDiff),
    Op("delete_file", P_root, NoDiff),
    Op("delete_file", P_f_x, NoDiff),
    Op("create_file", P_up_o_s, AddA),
    Op("create_file", P_l_n_x, AddA),
    Op("update_file", P_abs_o_s, AddA),
    Op("delete_file", P_l_s, NoDiff),
    Op("delete_file", P_up_o_s, NoDiff)
}

Answers == {
    <<"y">>,
    <<" ", "Y", "E", "S", " ">>,
    <<>>,
    <<"n">>,
    <<"y", "e", "s", "s">>
}

NoOp == [type |-> None, path |-> <<>>, diff |-> NoDiff]

NoCall == [editor |-> None, op |-> NoOp, relative |-> <<>>, fp |-> <<>>]

NoLast == [editor |-> None, op |-> NoOp, relative |-> <<>>, result |-> None,
           prompted |-> FALSE, answer |-> <<>>]

Done(e, op, relative, result, prompted, answer) ==
    [editor |-> e, op |-> op, relative |-> relative, result |-> result,
     prompted |-> prompted, answer |-> answer]

EditorInit ==
    /\ fs \in {FsNoRoot, FsWithLinks}
    /\ approved = {}
    /\ \E env \in EnvAutoApprove :
         autoApprove = [e \in Editors |-> AutoApproveOf(CtorFlag[e], env)]
    /\ pending = NoCall
    /\ last = NoLast
    /\ nOps = 0

\* create_file / update_file / delete_file up to the prompt, and to the end when
\* the gate is open
EditorCall(e, op) ==
    /\ pending.editor = None
    /\ nOps < MaxOps
    /\ nOps' = nOps + 1
    /\ LET rel == _relative_path(fs, op.path)
           fp == fingerprint(op, rel.relative)
           done == AfterGate(rel.fs, op)
       IN IF ~rel.ok THEN
              /\ fs' = rel.fs
              /\ last' = Done(e, op, rel.relative, rel.err, FALSE, <<>>)
              /\ UNCHANGED <<approved, pending>>
          ELSE IF GateOpen(autoApprove[e], approved, fp) THEN
              /\ approved' = Recorded(approved, fp, done.result)
              /\ fs' = done.fs
              /\ last' = Done(e, op, rel.relative, done.result, FALSE, <<>>)
              /\ UNCHANGED pending
          ELSE
              /\ fs' = rel.fs
              /\ pending' = [editor |-> e, op |-> op, relative |-> rel.relative, fp |-> fp]
              /\ UNCHANGED <<approved, last>>
    /\ UNCHANGED autoApprove

\* the answer to "Proceed? [y/N]" arrives, and the call runs to its end
EditorAnswer(answer) ==
    /\ pending.editor # None
    /\ LET done == AfterGate(fs, pending.op)
       IN IF ~AnswerAccepted(answer) THEN
              /\ last' = Done(pending.editor, pending.op, pending.relative, "Rejected", TRUE, answer)
              /\ UNCHANGED <<fs, approved>>
          ELSE
              /\ approved' = Recorded(approved, pending.fp, done.result)
              /\ fs' = done.fs
              /\ last' = Done(pending.editor, pending.op, pending.relative, done.result, TRUE, answer)
    /\ pending' = NoCall
    /\ UNCHANGED <<autoApprove, nOps>>

EditorNext ==
    \/ \E e \in Editors, op \in Operations : EditorCall(e, op)
    \/ \E answer \in Answers : EditorAnswer(answer)

\* where another process of the machine may point the link w/i
LinkTargets == {<<"w", "d">>, <<"w", "e">>, <<"o">>}

\* another process replaces the link w/i; the editor takes no lock, so this
\* can happen at any time, also while input() of line 94 blocks
Relink(target) ==
    /\ IsLink(fs, <<"w", "i">>)
    /\ fs[<<"w", "i">>].target # target
    /\ fs' = [fs EXCEPT ![<<"w", "i">>] = Link(target)]
    /\ UNCHANGED <<approved, autoApprove, pending, last, nOps>>

\* the operations issued while the link is being replaced
RaceOperations == {
    Op("create_file", P_i_f, AddA),
    Op("update_file", P_i_f, AtoB),
    Op("delete_file", P_i_f, NoDiff),
    Op("create_file", P_d_f, AddA)
}

RaceNext ==
    \/ \E e \in Editors, op \in RaceOperations : EditorCall(e, op)
    \/ \E answer \in Answers : EditorAnswer(answer)
    \/ \E target \in LinkTargets : Relink(target)

-----------------------------------------------------------------------------
(* The regular expressions of the ShellExecutor, matched as re.search does *)

\* \w
WordChars == {LowerCase[i] : i \in 1..Len(LowerCase)} \cup
             {UpperCase[i] : i \in 1..Len(UpperCase)} \cup Digits \cup {"_"}

IsWordAt(s, i) == i >= 1 /\ i <= Len(s) /\ s[i] \in WordChars

\* the pieces of a pattern
B == [t |-> "b", w |-> {}]                                  \* \b
WS == [t |-> "ws+", w |-> {}]                               \* \s+
NotSpaces == [t |-> "nsp*", w |-> {}]                       \* [^ ]*
Any0 == [t |-> "any*", w |-> {}]                            \* .*
Any1 == [t |-> "any+", w |-> {}]                            \* .+
L(str) == [t |-> "lit", w |-> {Chars(str)}]                 \* a literal
Alt(strs) == [t |-> "lit", w |-> {Chars(x) : x \in strs}]   \* (a|b|...)

\* the positions reached from a position of S by matching one piece; a position
\* is the index of the next character to read
StepPiece(s, piece, S) ==
    LET n == Len(s) + 1
    IN CASE piece.t = "b" ->
              {i \in S : IsWordAt(s, i - 1) # IsWordAt(s, i)}
         [] piece.t = "lit" ->
              {j \in 1..n : \E i \in S, w \in piece.w : MatchesAt(s, i, w) /\ j = i + Len(w)}
         [] piece.t = "ws+" ->
              {j \in 1..n : \E i \in S : i < j /\ \A k \in i..(j - 1) : s[k] \in Whitespace}
         [] piece.t = "nsp*" ->
              {j \in 1..n : \E i \in S : i <= j /\ \A k \in i..(j - 1) : s[k] # " "}
         [] piece.t = "any*" ->
              {j \in 1..n : \E i \in S : i <= j /\ \A k \in i..(j - 1) : s[k] # "\n"}
         [] piece.t = "any+" ->
              {j \in 1..n : \E i \in S : i < j /\ \A k \in i..(j - 1) : s[k] # "\n"}

RECURSIVE MatchPieces(_, _, _, _)
MatchPieces(s, pattern, k, S) ==
    IF k > Len(pattern) \/ S = {} THEN S
    ELSE MatchPieces(s, pattern, k + 1, StepPiece(s, pattern[k], S))

\* re.search(pattern, s) finds a match
re_search(pattern, s) == MatchPieces(s, pattern, 1, 1..(Len(s) + 1)) # {}

_YES_FLAG_PATTERNS == {
    <<B, L("npm"), WS, L("init"), B>>,
    <<B, L("npm"), WS, L("create"), B>>,
    <<B, L("npx"), WS, NotSpaces, L("create")>>,
    <<B, L("yarn"), WS, L("create"), B>>,
    <<B, L("pnpm"), WS, L("create"), B>>
}

_DEV_SERVER_PATTERNS == {
    <<B, L("npm"), WS, L("run"), WS, Alt({"dev", "start", "preview", "serve", "storybook"}), B>>,
    <<B, L("npm"), WS, L("run"), WS, Any0, Alt({"--watch", "--serve"}), B>>,
    <<B, L("npx"), WS, L("next"), WS, L("dev"), B>>,
    <<B, L("next"), WS, L("dev"), B>>,
    <<B, L("vite"), WS, L("dev"), B>>,
    <<B, L("npx"), WS, L("vite"), WS, L("dev"), B>>,
    <<B, L("pnpm"), WS, Alt({"dev", "preview", "start", "serve"}), B>>,
    <<B, L("yarn"), WS, Alt({"dev", "start", "preview", "serve", "storybook"}), B>>,
    <<B, L("npx"), WS, L("astro"), WS, L("dev"), B>>,
    <<B, L("npx"), WS, L("remix"), WS, L("dev"), B>>,
    <<B, L("npx"), WS, L("expo"), B>>,
    <<B, L("expo"), WS, L("start"), B>>,
    <<B, L("uvicorn"), B, Any1, Alt({"--reload", "--workers"})>>,
    <<B, L("flask"), WS, L("run"), B>>,
    <<B, L("django-admin"), WS, L("runserver"), B>>,
    <<B, L("python"), WS, L("-m"), WS, L("http.server"), B>>,
    <<B, L("nuxi"), WS, L("dev"), B>>,
    <<B, L("npx"), WS, L("nuxt"), WS, L("dev"), B>>
}

-----------------------------------------------------------------------------
(* ShellExecutor: the command rewriter *)

\* the index of the first occurrence of w in s, 0 when there is none
Find(s, w) ==
    IF Contains(s, w) THEN CHOOSE i \in 1..(Len(s) + 1) :
                              MatchesAt(s, i, w) /\ \A j \in 1..(i - 1) : ~MatchesAt(s, j, w)
    ELSE 0

\* s.replace(old, new, 1)
ReplaceFirst(s, old, new) ==
    IF Find(s, old) = 0 THEN s
    ELSE SubSeq(s, 1, Find(s, old) - 1) \o new \o SubSeq(s, Find(s, old) + Len(old), Len(s))

\* an insertion that ignores the separator
_append_flag_at_end(command, flag) == command \o Chars(" ") \o flag

\* ShellExecutor._append_flag
_append_flag(command, flag) ==
    IF Contains(command, Chars(" -- "))
    THEN ReplaceFirst(command, Chars(" -- "), Chars(" ") \o flag \o Chars(" -- "))
    ELSE command \o Chars(" ") \o flag

\* a check that finds no yes flag in any command
_has_yes_flag_never(command_lower) == FALSE

\* ShellExecutor._has_yes_flag
_has_yes_flag(command_lower) ==
    Contains(command_lower, Chars(" --yes")) \/ Contains(command_lower, Chars(" -y"))

\* a choice that ignores the configured preference
CompilerFlagAlwaysNo(self) == Chars("--no-use-react-compiler")

\* lines 294-296: the flag of the configured preference
CompilerFlag(self) ==
    IF self.react_compiler_preference = "use"
    THEN Chars("--use-react-compiler") ELSE Chars("--no-use-react-compiler")

\* ShellExecutor._prepare_command
_prepare_command(self, command) ==
    LET prepared0 == Strip(command)
        lower0 == Lower(prepared0)
        prepared1 ==
            IF ~_has_yes_flag(lower0) /\ \E pattern \in _YES_FLAG_PATTERNS : re_search(pattern, lower0)
            THEN _append_flag(prepared0, Chars("--yes"))
            ELSE prepared0
        lower1 == Lower(prepared1)
        compiler_flag == CompilerFlag(self)
        prepared2 ==
            IF /\ Contains(lower1, Chars("create-next-app"))
               /\ ~Contains(lower1, Chars("--use-react-compiler"))
               /\ ~Contains(lower1, Chars("--no-use-react-compiler"))
            THEN _append_flag(prepared1, compiler_flag)
            ELSE prepared1
    IN IF self.force_non_interactive THEN prepared2 ELSE prepared0

\* ShellExecutor._requires_background
_requires_background(command) ==
    \E pattern \in _DEV_SERVER_PATTERNS : re_search(pattern, Lower(Strip(command)))

\* ShellExecutor._is_backgrounded
_is_backgrounded(command) ==
    \/ EndsWith(RStrip(command), Chars("&"))
    \/ Contains(RStrip(command), Chars("nohup ")) /\ Contains(RStrip(command), Chars("&"))

-----------------------------------------------------------------------------
(* ShellExecutor: configuration.  An optional value is the empty set (None)  *)
(* or a set of one element.  Times are in thousandths of a second.          *)

NoneOpt == {}

Some(x) == {x}

The(opt) == CHOOSE x \in opt : TRUE

\* float(env_timeout): the strings that parse, and their values in seconds
FloatOf == ("5" :> 5)

\* ShellExecutor.__init__
ShellExecutor_init(args, env) ==
    [default_timeout |->
        IF args.default_timeout # NoneOpt THEN Some(The(args.default_timeout) * 1000)
        ELSE IF env.timeout # NoneOpt /\ The(env.timeout) \in DOMAIN FloatOf
             THEN Some(FloatOf[The(env.timeout)] * 1000)
        ELSE NoneOpt,
     background_on_timeout |->
        IF args.background_on_timeout # NoneOpt THEN The(args.background_on_timeout)
        ELSE env.background = Some("1"),
     force_non_interactive |->
        IF args.force_non_interactive # NoneOpt THEN The(args.force_non_interactive)
        ELSE env.non_interactive \in {NoneOpt, Some("1")},
     react_compiler_preference |->
        LET given == IF args.react_compiler_preference # NoneOpt
                     THEN The(args.react_compiler_preference)
                     ELSE IF env.react_compiler # NoneOpt THEN The(env.react_compiler)
                     ELSE "no"
        IN IF Lower(Strip(Chars(given))) = Chars("use") THEN "use" ELSE "no"]

CtorArgs ==
    [default_timeout : {NoneOpt, Some(5)},
     background_on_timeout : {NoneOpt, Some(TRUE)},
     force_non_interactive : {NoneOpt, Some(FALSE)},
     react_compiler_preference : {NoneOpt, Some("maybe")}]

ShellEnv ==
    [timeout : {NoneOpt, Some("5"), Some("abc")},
     background : {NoneOpt, Some("1")},
     non_interactive : {NoneOpt, Some("0")},
     react_compiler : {NoneOpt, Some(" No ")}]

-----------------------------------------------------------------------------
(* The processes the executor spawns.  A process is the shell that          *)
(* create_subprocess_shell starts: it runs the steps of its command, then    *)
(* exits; its pipes reach end-of-file when it exits, unless a job it left in *)
(* the background keeps them open.                                           *)

Out(text) == [do |-> "out", text |-> text]
Err(text) == [do |-> "err", text |-> text]
Effect == [do |-> "effect", text |-> ""]

Script(steps, code, detach) == [steps |-> steps, code |-> code, detach |-> detach]

\* the commands of the model's batches
CmdOk == Chars("echo ok")
CmdBad == Chars("echo oops >&2; exit 3")
CmdMarker == Chars("echo start; sleep 2; touch marker")
CmdDev == Chars("npm run dev")
CmdDevBg == Chars("npm run dev &")
CmdInit == Chars(" NPM init ")

Commands == {CmdOk, CmdBad, CmdMarker, CmdDev, CmdDevBg, CmdInit}

\* what the shell does with a command
ScriptOf(prepared) ==
    CASE prepared = CmdBad -> Script(<<Err("oops")>>, 3, FALSE)
      [] prepared = CmdMarker -> Script(<<Out("start"), Effect>>, 0, FALSE)
      [] prepared = CmdDevBg -> Script(<<>>, 0, TRUE)
      [] OTHER -> Script(<<Out("ok")>>, 0, FALSE)

SIGKILL == 9

NewProc(call, index, prepared) ==
    [call |-> call, index |-> index, command |-> prepared, script |-> ScriptOf(prepared),
     pos |-> 0, state |-> "running", returncode |-> NoneOpt, pipe |-> "open",
     stdout |-> <<>>, stderr |-> <<>>, effect |-> FALSE]

\* a kill() that does nothing
KillNothing(proc) == proc

\* proc.kill(): a process that has exited is left as it is
Kill(proc) ==
    IF proc.state = "running"
    THEN [proc EXCEPT !.state = "killed", !.returncode = Some(-SIGKILL)]
    ELSE proc

-----------------------------------------------------------------------------
(* ShellExecutor.__call__ *)

\* the commands submitted to the executor, over all its calls
MaxCommands == 2

\* the batches a request may carry
RECURSIVE SeqsUpTo(_, _)
SeqsUpTo(S, n) ==
    IF n = 0 THEN {<<>>}
    ELSE SeqsUpTo(S, n - 1) \cup {Append(q, x) : q \in {r \in SeqsUpTo(S, n - 1) : Len(r) = n - 1}, x \in S}

Batches == SeqsUpTo(Commands, MaxCommands) \ {<<>>}

\* action.timeout_ms
TimeoutsMs == {NoneOpt, Some(500)}

Max(a, b) == IF a >= b THEN a ELSE b

\* a resolution that prefers the configured default
ResolveTimeoutDefaultFirst(self, timeout_ms) ==
    IF self.default_timeout # NoneOpt THEN self.default_timeout
    ELSE IF timeout_ms # NoneOpt THEN Some(Max(The(timeout_ms), 0))
    ELSE NoneOpt

\* lines 189-193: the timeout of the wait
ResolveTimeout(self, timeout_ms) ==
    IF timeout_ms # NoneOpt THEN Some(Max(The(timeout_ms), 0))
    ELSE IF self.default_timeout # NoneOpt THEN self.default_timeout
    ELSE NoneOpt

NoMessage == [msg |-> "none", timeout |-> NoneOpt, pid |-> NoneOpt]

\* a ShellCommandOutput; stderr is a message line followed by the raw stderr
Output(command, stdout, message, raw, type, exit_code) ==
    [command |-> command, stdout |-> stdout,
     stderr |-> [message |-> message, raw |-> raw],
     outcome |-> [type |-> type, exit_code |-> exit_code]]

\* lines 166-178: the corrective outcome
CorrectiveOutput(prepared) ==
    Output(prepared, <<>>, [msg |-> "run in background", timeout |-> NoneOpt, pid |-> NoneOpt],
           <<>>, "exit", Some(1))

\* lines 163-165: the command is refused before it is spawned
NeedsCorrective(prepared) == _requires_background(prepared) /\ ~_is_backgrounded(prepared)

\* line 161, for every configuration and command of the model
Prepared ==
    [fni \in BOOLEAN |-> [pref \in {"use", "no"} |-> [c \in Commands |->
        _prepare_command([force_non_interactive |-> fni, react_compiler_preference |-> pref], c)]]]

PreparedCommands == {Prepared[fni][pref][c] : fni \in BOOLEAN, pref \in {"use", "no"}, c \in Commands}

\* lines 163-165, for every prepared command of the model
Refused == [prepared \in PreparedCommands |-> NeedsCorrective(prepared)]

\* a loop that the corrective outcome ends
CorrectiveBreaks == TRUE

\* line 179: after the corrective outcome the loop goes on to the next command
CorrectiveEndsBatch == FALSE

\* a loop that no outcome ends
EndsBatchNever(timed_out, exit_code) == FALSE

\* a loop that a failed command ends too
EndsBatchOnFailure(timed_out, exit_code) == timed_out \/ exit_code # Some(0)

\* lines 237-238: the outcome after which the loop is left
EndsBatch(timed_out, exit_code) == timed_out

\* an executor that kills on every timeout
KillsAlways(self) == TRUE

\* line 204: on a timeout the process is killed
KillsOnTimeout(self) == ~self.background_on_timeout

IdleBatch ==
    [phase |-> "idle", call |-> 0, commands |-> <<>>, timeout_ms |-> NoneOpt, i |-> 0,
     outputs |-> <<>>, pid |-> 0, timeout |-> NoneOpt, lost_out |-> 0, lost_err |-> 0]

NoReturn == [call |-> 0, submitted |-> 0, commands |-> <<>>, timeout_ms |-> NoneOpt, output |-> <<>>]

\* the loop of __call__ from command b.i up to the next wait, or to the return
RECURSIVE RunLoop(_, _, _, _)
RunLoop(self, b, ps, ret) ==
    IF b.i > Len(b.commands) THEN
        [batch |-> IdleBatch, procs |-> ps,
         returned |-> [call |-> b.call, submitted |-> ret.submitted + Len(b.commands),
                       commands |-> b.commands, timeout_ms |-> b.timeout_ms,
                       output |-> b.outputs]]
    ELSE
        LET prepared == Prepared[self.force_non_interactive][self.react_compiler_preference][b.commands[b.i]]
        IN IF Refused[prepared] THEN
               RunLoop(self,
                       [b EXCEPT !.outputs = Append(@, CorrectiveOutput(prepared)),
                                 !.i = IF CorrectiveEndsBatch THEN Len(b.commands) + 1 ELSE @ + 1],
                       ps, ret)
           ELSE
               [batch |-> [b EXCEPT !.phase = "waiting", !.pid = Len(ps) + 1,
                                    !.timeout = ResolveTimeout(self, b.timeout_ms)],
                procs |-> Append(ps, NewProc(b.call, b.i, prepared)),
                returned |-> ret]

\* lines 223-238: the outcome of command b.i is appended and the loop goes on
Collect(self, b, ps, ret, output, timed_out) ==
    RunLoop(self,
            [b EXCEPT !.outputs = Append(@, output), !.phase = "running", !.pid = 0,
                      !.i = IF EndsBatch(timed_out, output.outcome.exit_code)
                            THEN Len(b.commands) + 1 ELSE @ + 1],
            ps, ret)

Become(next) ==
    \E n \in {next} :
        /\ batch' = n.batch
        /\ procs' = n.procs
        /\ returned' = n.returned

ShellInit ==
    /\ \E args \in CtorArgs, env \in ShellEnv : cfg = ShellExecutor_init(args, env)
    /\ batch = IdleBatch
    /\ procs = <<>>
    /\ returned = NoReturn

\* the executor is called with a batch
ShellCall(commands, timeout_ms) ==
    /\ batch.phase = "idle"
    /\ returned.submitted + Len(commands) <= MaxCommands
    /\ Become(RunLoop(cfg,
                      [IdleBatch EXCEPT !.phase = "running", !.call = returned.call + 1,
                                        !.commands = commands, !.timeout_ms = timeout_ms, !.i = 1],
                      procs, returned))
    /\ UNCHANGED cfg

\* a process runs its next step
ProcStep(pid) ==
    /\ pid <= Len(procs)
    /\ procs[pid].state = "running"
    /\ procs[pid].pos < Len(procs[pid].script.steps)
    /\ LET step == procs[pid].script.steps[procs[pid].pos + 1]
       IN procs' = [procs EXCEPT
              ![pid].pos = @ + 1,
              ![pid].stdout = IF step.do = "out" THEN Append(@, step.text) ELSE @,
              ![pid].stderr = IF step.do = "err" THEN Append(@, step.text) ELSE @,
              ![pid].effect = IF step.do = "effect" THEN TRUE ELSE @]
    /\ UNCHANGED <<cfg, batch, returned>>

\* a process exits
ProcExit(pid) ==
    /\ pid <= Len(procs)
    /\ procs[pid].state = "running"
    /\ procs[pid].pos = Len(procs[pid].script.steps)
    /\ procs' = [procs EXCEPT
           ![pid].state = "exited",
           ![pid].returncode = Some(procs[pid].script.code),
           ![pid].pipe = IF procs[pid].script.detach THEN "open" ELSE "eof"]
    /\ UNCHANGED <<cfg, batch, returned>>

\* what a killed shell had started ends, and its pipes reach end-of-file
PipeEof(pid) ==
    /\ pid <= Len(procs)
    /\ procs[pid].state = "killed"
    /\ procs[pid].pipe = "open"
    /\ procs' = [procs EXCEPT ![pid].pipe = "eof"]
    /\ UNCHANGED <<cfg, batch, returned>>

\* a wait that is over at any time
WaitOverAtOnce(p) == TRUE

\* line 199: communicate() returns when the process has ended and its pipes are
\* at end-of-file
WaitOver(p) == p.state = "exited" /\ p.pipe = "eof"

\* lines 199-201: communicate() returns before the timeout
WaitDone ==
    /\ batch.phase = "waiting"
    /\ WaitOver(procs[batch.pid])
    /\ LET p == procs[batch.pid]
       IN Become(Collect(cfg, batch, procs, returned,
                         Output(p.command, p.stdout, NoMessage, p.stderr, "exit", p.returncode),
                         FALSE))
    /\ UNCHANGED cfg

\* lines 202-221: the wait times out. What the cancelled communicate() had read
\* (lost_out, lost_err chunks) is dropped with it.
WaitTimeout(lost_out, lost_err) ==
    /\ batch.phase = "waiting"
    /\ batch.timeout # NoneOpt
    /\ IF KillsOnTimeout(cfg) THEN
           /\ procs' = [procs EXCEPT ![batch.pid] = Kill(@)]
           /\ batch' = [batch EXCEPT !.phase = "draining", !.lost_out = lost_out,
                                     !.lost_err = lost_err]
           /\ UNCHANGED returned
       ELSE
           LET p == procs[batch.pid]
           IN Become(Collect(cfg, batch, procs, returned,
                             Output(p.command, <<>>,
                                    [msg |-> "still running", timeout |-> batch.timeout,
                                     pid |-> Some(batch.pid)],
                                    <<>>, "timeout", p.returncode),
                             TRUE))
    /\ UNCHANGED cfg

\* line 214: the second communicate() returns what was left in the pipes
DrainDone ==
    /\ batch.phase = "draining"
    /\ procs[batch.pid].state # "running"
    /\ procs[batch.pid].pipe = "eof"
    /\ LET p == procs[batch.pid]
       IN Become(Collect(cfg, batch, procs, returned,
                         Output(p.command,
                                SubSeq(p.stdout, batch.lost_out + 1, Len(p.stdout)),
                                [msg |-> "terminated", timeout |-> batch.timeout,
                                 pid |-> Some(batch.pid)],
                                SubSeq(p.stderr, batch.lost_err + 1, Len(p.stderr)),
                                "timeout", p.returncode),
                         TRUE))
    /\ UNCHANGED cfg

\* the chunks the cancelled communicate() may have read from a stream
Lost(stream) == IF batch.phase = "waiting" THEN 0..Len(procs[batch.pid][stream]) ELSE {0}

\* the processes run and the waits of __call__ end
ProcessNext ==
    \/ \E pid \in 1..MaxCommands : ProcStep(pid)
    \/ \E pid \in 1..MaxCommands : ProcExit(pid)
    \/ \E pid \in 1..MaxCommands : PipeEof(pid)
    \/ WaitDone
    \/ \E lost_out \in Lost("stdout"), lost_err \in Lost("stderr") : WaitTimeout(lost_out, lost_err)
    \/ DrainDone

ShellNext ==
    \/ \E commands \in Batches, timeout_ms \in TimeoutsMs : ShellCall(commands, timeout_ms)
    \/ ProcessNext

\* action.timeout_ms of any sign
AnyTimeoutsMs == {NoneOpt, Some(-500), Some(0), Some(500)}

\* a command that ends at once and one that takes its time
TimedCommands == {CmdOk, CmdMarker}

\* calls of one command each, with any timeout_ms
TimeoutNext ==
    \/ \E command \in TimedCommands, timeout_ms \in AnyTimeoutsMs : ShellCall(<<command>>, timeout_ms)
    \/ ProcessNext

-----------------------------------------------------------------------------
(* The specifications *)

\* the executor that coding_agent.py constructs: ShellExecutor(cwd=workspace_path)
EditorOnly ==
    /\ cfg = ShellExecutor_init(
                [default_timeout |-> NoneOpt, background_on_timeout |-> NoneOpt,
                 force_non_interactive |-> NoneOpt, react_compiler_preference |-> NoneOpt],
                [timeout |-> NoneOpt, background |-> NoneOpt, non_interactive |-> NoneOpt,
                 react_compiler |-> NoneOpt])
    /\ batch = IdleBatch
    /\ procs = <<>>
    /\ returned = NoReturn

\* the workspace the executor runs in, with no editor call made
ShellOnly ==
    /\ fs = FsWithLinks
    /\ approved = {}
    /\ autoApprove = [e \in Editors |-> AutoApproveOf(CtorFlag[e], None)]
    /\ pending = NoCall
    /\ last = NoLast
    /\ nOps = 0

\* no function applied
NoCalc == [fn |-> None, args |-> <<>>, result |-> <<>>, done |-> FALSE]

CalcIdle == calc = NoCalc

Init == EditorInit /\ EditorOnly /\ CalcIdle

Next == EditorNext /\ UNCHANGED <<shellVars, pureVars>>

\* the editor and its approval tracker
Spec == Init /\ [][Next]_vars

RaceSpecNext == RaceNext /\ UNCHANGED <<shellVars, pureVars>>

\* the editor, with another process that replaces a link of the workspace
RaceSpec == Init /\ [][RaceSpecNext]_vars

ShellSpecInit == ShellInit /\ ShellOnly /\ CalcIdle

ShellSpecNext == ShellNext /\ UNCHANGED <<editorVars, pureVars>>

\* the shell executor and its processes
ShellSpec == ShellSpecInit /\ [][ShellSpecNext]_vars

\* the operating system runs every process that can run
ProcFairness ==
    \A pid \in 1..MaxCommands :
        /\ WF_vars(ProcStep(pid) /\ UNCHANGED <<editorVars, pureVars>>)
        /\ WF_vars(ProcExit(pid) /\ UNCHANGED <<editorVars, pureVars>>)

ShellLiveSpec == ShellSpecInit /\ [][ShellSpecNext]_vars /\ ProcFairness

TimeoutSpecNext == TimeoutNext /\ UNCHANGED <<editorVars, pureVars>>

\* the shell executor called with one command at a time
TimeoutSpec == ShellSpecInit /\ [][TimeoutSpecNext]_vars

-----------------------------------------------------------------------------
(* The functions of the program, applied to arguments drawn from small sets *)

\* the longest path and diff of the fingerprinted operations
MaxText == 2

\* operation.type, relative_path and operation.diff of the fingerprinted
\* operations; a diff may hold a NUL, a type and a path hold none
FpKinds == {"a", "aa", "create_file", "delete_file"}

FpPaths == SeqsUpTo({"a"}, MaxText)

FpDiffs == {NoDiff} \cup {DiffOf(text) : text \in SeqsUpTo({"a", NUL}, MaxText)}

FpOperations == [type : FpKinds, path : FpPaths, diff : FpDiffs]

Calc(fn, args) == [fn |-> fn, args |-> args, result |-> <<>>, done |-> FALSE]

FingerprintInit == \E a \in FpOperations, b \in FpOperations : calc = Calc("fingerprint", <<a, b>>)

\* ApprovalTracker.fingerprint of two operations
ApplyFingerprint ==
    /\ calc.fn = "fingerprint"
    /\ ~calc.done
    /\ calc' = [calc EXCEPT
           !.result = [i \in 1..2 |->
                         [bytes |-> HashInput(calc.args[i].type, calc.args[i].path, calc.args[i].diff),
                          digest |-> fingerprint(calc.args[i], calc.args[i].path)]],
           !.done = TRUE]

\* the constructor arguments and environment that the rewriter depends on
RewriterArgs ==
    [default_timeout : {NoneOpt},
     background_on_timeout : {NoneOpt},
     force_non_interactive : {NoneOpt, Some(TRUE), Some(FALSE)},
     react_compiler_preference : {NoneOpt, Some("use"), Some("maybe")}]

RewriterEnv ==
    [timeout : {NoneOpt},
     background : {NoneOpt},
     non_interactive : {NoneOpt, Some("0"), Some("1")},
     react_compiler : {NoneOpt, Some(" USE "), Some(" No "), Some("")}]

\* the commands given to the rewriter
RewriterCommands == {
    Chars(" NPM init "),
    Chars("npm init -y"),
    Chars("npm create vite -- --template x"),
    Chars("npm create vite --yes -- --template x"),
    Chars("npx create-next-app app"),
    Chars("npx create-next-app app -- --ts"),
    Chars("Create-Next-App app"),
    Chars("npx create-next-app app --yes --use-react-compiler"),
    Chars("npx create-next-app app -y --NO-use-react-compiler "),
    Chars("Yarn Create App -- A -- b"),
    Chars("pnpm create x"),
    Chars("echo ok")
}

PrepareInit ==
    \E args \in RewriterArgs, env \in RewriterEnv, command \in RewriterCommands :
        calc = Calc("_prepare_command", <<args, env, command>>)

\* _prepare_command of the constructed executor, and again on its result
ApplyPrepare ==
    /\ calc.fn = "_prepare_command"
    /\ ~calc.done
    /\ LET self == ShellExecutor_init(calc.args[1], calc.args[2])
           once == _prepare_command(self, calc.args[3])
       IN calc' = [calc EXCEPT
              !.result = [self |-> self, once |-> once, twice |-> _prepare_command(self, once)],
              !.done = TRUE]

\* the longest plan given to UpdatePlan
MaxSteps == 3

\* PlanStep.status
Statuses == {"pending", "in_progress", "completed"}

\* the plans given to UpdatePlan, the empty one included
PlanSteps == SeqsUpTo([description : {"step"}, status : Statuses], MaxSteps)

\* sum(1 for step in steps if step.status == status)
CountOf(steps, status) == Cardinality({i \in DOMAIN steps : steps[i].status = status})

\* steps: min_length
min_length == 1

\* a validator that asks for at most one step in progress
validate_at_most_one_in_progress(steps) ==
    IF CountOf(steps, "completed") = Len(steps) THEN None
    ELSE IF CountOf(steps, "in_progress") > 1 THEN "ValueError"
    ELSE None

\* UpdatePlan.validate_in_progress_count: the error it raises, None when it
\* returns the steps
validate_in_progress_count(steps) ==
    IF CountOf(steps, "completed") = Len(steps) THEN None
    ELSE IF CountOf(steps, "in_progress") # 1 THEN "ValueError"
    ELSE None

\* the validation of the field steps: its length, then its validator
ValidateSteps(steps) ==
    IF Len(steps) < min_length THEN "ValueError"
    ELSE validate_in_progress_count(steps)

UpdatePlanInit ==
    \E steps \in PlanSteps, context \in BOOLEAN :
        calc = Calc("UpdatePlan", <<steps, context>>)

\* UpdatePlan(steps=...): the tool is built when the validation raises nothing
UpdatePlan ==
    /\ calc.fn = "UpdatePlan"
    /\ ~calc.done
    /\ LET steps == calc.args[1]
           error == ValidateSteps(steps)
       IN calc' = [calc EXCEPT
              !.result = [error |-> error,
                          steps |-> IF error = None THEN Some(steps) ELSE NoneOpt,
                          ran |-> FALSE,
                          current_plan |-> NoneOpt,
                          completed |-> 0,
                          in_progress_step |-> NoneOpt],
              !.done = TRUE]

\* next(i + 1 for i, step in enumerate(steps) if step.status == "in_progress")
FirstInProgress(steps) ==
    LET at == {i \in DOMAIN steps : steps[i].status = "in_progress"}
    IN IF at = {} THEN NoneOpt ELSE Some(CHOOSE i \in at : \A j \in at : i <= j)

\* UpdatePlan.run of the tool that was built
UpdatePlan_run ==
    /\ calc.fn = "UpdatePlan"
    /\ calc.done
    /\ calc.result.steps # NoneOpt
    /\ ~calc.result.ran
    /\ LET steps == The(calc.result.steps)
       IN calc' = [calc EXCEPT
              !.result.ran = TRUE,
              !.result.current_plan = IF calc.args[2] THEN Some(steps) ELSE NoneOpt,
              !.result.completed = CountOf(steps, "completed"),
              !.result.in_progress_step = FirstInProgress(steps)]

\* the prepared commands given to the detection of long-running commands
BackgroundCommands == {
    Chars("npm run dev"),
    Chars("npm run dev &"),
    Chars("npm run dev & \t"),
    Chars("npm run dev && echo hi"),
    Chars("npm run dev & echo hi"),
    Chars("nohup npm run dev &"),
    Chars("nohup npm run dev"),
    Chars("nohup npm run dev && echo hi"),
    Chars("nohup npm run dev > log 2>&1"),
    Chars("echo a && echo b"),
    Chars("echo ok &")
}

BackgroundInit == \E command \in BackgroundCommands : calc = Calc("_is_backgrounded", <<command>>)

\* lines 163-165: the two detections on a prepared command, and the choice
\* between the corrective outcome and the spawn
ApplyBackground ==
    /\ calc.fn = "_is_backgrounded"
    /\ ~calc.done
    /\ calc' = [calc EXCEPT
           !.result = [requires_background |-> _requires_background(calc.args[1]),
                       is_backgrounded |-> _is_backgrounded(calc.args[1]),
                       corrective |-> NeedsCorrective(calc.args[1])],
           !.done = TRUE]

PureInit ==
    \/ FingerprintInit
    \/ PrepareInit
    \/ UpdatePlanInit
    \/ BackgroundInit

PureNext ==
    \/ ApplyFingerprint
    \/ ApplyPrepare
    \/ UpdatePlan
    \/ UpdatePlan_run
    \/ ApplyBackground

PureSpecInit == PureInit /\ EditorOnly /\ ShellOnly

PureSpecNext == PureNext /\ UNCHANGED <<editorVars, shellVars>>

\* the functions of the program on their own
PureSpec == PureSpecInit /\ [][PureSpecNext]_vars

-----------------------------------------------------------------------------
(* Properties of the WorkspaceEditor *)

\* the answers of the model that mean yes: "y" and "yes" in any case, trimmed
Affirmative == {Chars("y"), Chars(" YES ")}

FpOf(call) == fingerprint(call.op, call.relative)

\* this step ends an editor call, which last' then describes
CallEnds == pending'.editor = None /\ (pending.editor # None \/ nOps' = nOps + 1)

Succeeded(call) == call.result \in {"Created", "Updated", "Deleted"}

Inside(p) == IsPrefix(WorkspaceRoot, p)

OutsideOf(f) == [p \in {q \in DOMAIN f : ~Inside(q)} |-> f[p]]

\* the path strings of the model that lead out of the workspace in filesystem f
Escaping(f) ==
    {P_up_o_s, P_abs_o_s} \cup (IF IsLink(f, <<"w", "l">>) THEN {P_l_s, P_l_n_x} ELSE {})

\* C1: a step changes the filesystem only as the end of a call whose fingerprint
\* is then in the approval set; with auto-approve off, that fingerprint was in the
\* set before the call or the prompt of this call was answered y/yes
C1_NoMutationBeforeApproval ==
    [][fs' # fs =>
        /\ CallEnds
        /\ FpOf(last') \in approved'
        /\ ~autoApprove[last'.editor] =>
             \/ ~last'.prompted /\ FpOf(last') \in approved
             \/ last'.prompted /\ last'.answer \in Affirmative]_vars

C1_Witness ==
    /\ last.editor = "manual" /\ ~autoApprove["manual"]
    /\ last.prompted /\ last.result = "Created" /\ Exists(fs, <<"w", "d", "f">>)

\* C2: a call whose path leads out of the workspace fails with the
\* out-of-workspace error, and nothing outside the workspace root is ever
\* created, written or removed
C2_WorkspaceContainment ==
    /\ OutsideOf(fs) = OutsideFiles
    /\ last.editor # None /\ last.op.path \in Escaping(fs) => last.result = "OutsideWorkspace"

C2_Witness ==
    /\ last.op.path = P_l_s /\ last.op.type = "delete_file"
    /\ last.result = "OutsideWorkspace" /\ IsLink(fs, <<"w", "l">>)

\* C3: a prompt answered with anything but y/yes ends the call with the
\* rejection error, and no step of that call changes the filesystem
C3_DenialChangesNothing ==
    [][/\ pending'.editor # None => fs' = fs
       /\ pending.editor # None /\ last'.answer \notin Affirmative =>
            last'.result = "Rejected" /\ fs' = fs]_vars

C3_Witness ==
    /\ last.result = "Rejected" /\ last.answer = <<>>
    /\ last.op.type = "create_file" /\ last.op.path = P_d_f /\ ~Exists(fs, <<"w", "d">>)

\* C4: the approval set never loses an element, and a call whose fingerprint is in
\* the set does not prompt
C4_ApprovalMonotonic ==
    [][/\ approved \subseteq approved'
       /\ pending.editor = None /\ pending'.editor # None => FpOf(pending') \notin approved]_vars

C4_Witness ==
    /\ last.editor = "manual" /\ ~autoApprove["manual"]
    /\ ~last.prompted /\ last.result = "Updated" /\ Cardinality(approved) >= 2

\* C5: an editor with auto-approve on never prompts and records the fingerprint
\* of every operation that passes the gate, so the same operation does not prompt
\* on the editor with auto-approve off
C5_AutoApproveRecords ==
    [][/\ pending'.editor # None =>
            ~autoApprove[pending'.editor] /\ FpOf(pending') \notin approved'
       /\ last'.editor # None /\ autoApprove[last'.editor] =>
            /\ ~last'.prompted
            /\ last'.result # "OutsideWorkspace" => FpOf(last') \in approved']_vars

C5_Witness ==
    /\ last.editor = "auto" /\ ~autoApprove["manual"]
    /\ ~last.prompted /\ last.result = "Created" /\ FpOf(last) \in approved

-----------------------------------------------------------------------------
(* Properties of the ShellExecutor *)

\* the outcome list of the call in progress, or of the last call
OutputsNow == IF batch.phase = "idle" THEN returned.output ELSE batch.outputs

CallNow == IF batch.phase = "idle" THEN returned.call ELSE batch.call

\* the processes spawned for command index of a call
ProcsOf(call, index) ==
    {pid \in 1..Len(procs) : procs[pid].call = call /\ procs[pid].index = index}

IsTimeout(o) == o.outcome.type = "timeout"

IsSuffix(t, q) == Len(t) <= Len(q) /\ SubSeq(q, Len(q) - Len(t) + 1, Len(q)) = t

\* the commands of the model that match a dev-server pattern and are not
\* backgrounded, whatever the configuration
DevServerInForeground == {CmdDev}

\* the text the rewriter makes of a command of the model
Rewritten(self, command) ==
    IF command = CmdInit
    THEN (IF self.force_non_interactive THEN Chars("NPM init --yes") ELSE Chars("NPM init"))
    ELSE command

CorrectiveShape(o, command) ==
    /\ o.command = command
    /\ o.stdout = <<>>
    /\ o.stderr.message.msg = "run in background"
    /\ o.outcome = [type |-> "exit", exit_code |-> Some(1)]

\* what C6 states of every returned batch but its last clause
C6_Refused(i) ==
    /\ ProcsOf(returned.call, i) = {}
    /\ i <= Len(returned.output) => CorrectiveShape(returned.output[i], returned.commands[i])

C7_TimeoutStopsBatch ==
    [][/\ batch.phase # "idle" /\ OutputsNow' # batch.outputs /\ IsTimeout(Last(OutputsNow')) =>
            /\ batch'.phase = "idle"
            /\ returned'.call = batch.call
            /\ returned'.output = Append(batch.outputs, Last(OutputsNow'))
            /\ Last(OutputsNow').command = procs[batch.pid].command
            /\ procs[batch.pid].index = Len(batch.outputs) + 1
            /\ Len(procs') = Len(procs)
       /\ batch.phase # "idle" /\ batch'.phase # "idle" => IsPrefix(batch.outputs, batch'.outputs)
       /\ \A i \in 1..Len(OutputsNow') :
            IsTimeout(OutputsNow'[i]) =>
                /\ i = Len(OutputsNow')
                /\ \A pid \in 1..Len(procs') : procs'[pid].call = CallNow' => procs'[pid].index <= i]_vars

C7_Witness ==
    /\ batch.phase = "idle"
    /\ Len(returned.commands) = 2
    /\ Len(returned.output) = 1
    /\ IsTimeout(returned.output[1])
    /\ Len(procs) = 1

\* C8: a non-zero exit does not end the batch; a returned list without a timeout
\* has one exit outcome per command, in input order
C8_FailureContinues ==
    /\ \A i \in 1..Len(returned.output) :
         /\ returned.output[i].command = Rewritten(cfg, returned.commands[i])
         /\ returned.output[i].outcome.type = "exit" /\ i < Len(returned.commands) =>
              i < Len(returned.output)
    /\ (\A i \in 1..Len(returned.output) : ~IsTimeout(returned.output[i])) =>
         /\ Len(returned.output) = Len(returned.commands)
         /\ \A i \in 1..Len(returned.output) : returned.output[i].outcome.type = "exit"

C8_Witness ==
    /\ returned.commands = <<CmdBad, CmdOk>>
    /\ Len(returned.output) = 2
    /\ returned.output[1].outcome = [type |-> "exit", exit_code |-> Some(3)]
    /\ returned.output[2].outcome = [type |-> "exit", exit_code |-> Some(0)]

\* the timeout that the wait of the last call used
TimeoutOfReturned ==
    IF returned.timeout_ms # NoneOpt THEN returned.timeout_ms ELSE cfg.default_timeout

\* C9: under the terminate policy the process of a timed-out command is killed
\* before the drain; the timeout outcome carries the termination message with the
\* timeout and the pid, then what the drain read; the process is not running
\* when the call has returned
C9_TerminatePolicy ==
    ~cfg.background_on_timeout =>
        /\ batch.phase = "draining" => procs[batch.pid].state # "running"
        /\ \A i \in 1..Len(returned.output) :
             IsTimeout(returned.output[i]) =>
                 \E pid \in ProcsOf(returned.call, i) :
                     /\ procs[pid].state # "running"
                     /\ returned.output[i].stderr.message =
                            [msg |-> "terminated", timeout |-> TimeoutOfReturned, pid |-> Some(pid)]
                     /\ TimeoutOfReturned # NoneOpt
                     /\ IsSuffix(returned.output[i].stderr.raw, procs[pid].stderr)
                     /\ IsSuffix(returned.output[i].stdout, procs[pid].stdout)

C9_Witness ==
    /\ ~cfg.background_on_timeout
    /\ batch.phase = "idle"
    /\ returned.commands = <<CmdMarker>>
    /\ IsTimeout(returned.output[1])
    /\ procs[1].state = "killed"
    /\ returned.output[1].stdout = <<"start">>
    /\ ~procs[1].effect

\* the call has returned with a timeout for the process, which is still running
Abandoned(pid) ==
    /\ pid <= Len(procs)
    /\ cfg.background_on_timeout
    /\ batch.phase = "idle"
    /\ returned.call = procs[pid].call
    /\ Len(returned.output) = procs[pid].index
    /\ IsTimeout(returned.output[procs[pid].index])
    /\ procs[pid].state = "running"

\* the process has its side effect still to do
EffectPending(pid) ==
    /\ ~procs[pid].effect
    /\ \E k \in (procs[pid].pos + 1)..Len(procs[pid].script.steps) :
         procs[pid].script.steps[k] = Effect

EffectDone(pid) == pid <= Len(procs) /\ procs[pid].effect

\* C10: under the background-continuation policy no process is ever killed; a
\* timeout outcome has empty stdout and the still-running message with the pid;
\* a process left running when the call returned does its side effect
C10_BackgroundPolicy ==
    /\ [](cfg.background_on_timeout =>
            /\ \A pid \in 1..Len(procs) : procs[pid].state # "killed"
            /\ batch.phase # "draining"
            /\ \A i \in 1..Len(returned.output) :
                 IsTimeout(returned.output[i]) =>
                     /\ returned.output[i].stdout = <<>>
                     /\ returned.output[i].stderr.raw = <<>>
                     /\ returned.output[i].stderr.message.msg = "still running"
                     /\ returned.output[i].stderr.message.timeout = TimeoutOfReturned
                     /\ returned.output[i].stderr.message.pid \subseteq ProcsOf(returned.call, i)
                     /\ returned.output[i].stderr.message.pid # NoneOpt)
    /\ \A pid \in 1..MaxCommands : (Abandoned(pid) /\ EffectPending(pid)) ~> EffectDone(pid)

C10_Witness == Abandoned(1) /\ EffectPending(1) /\ procs[1].stdout = <<"start">>

\* C11: every returned outcome carries the rewritten command and a terminal
\* status; the exit code is present exactly when the status is exit, and absent
\* when it is timeout
C11_ExitCodeOnlyOnExit ==
    \A i \in 1..Len(returned.output) :
        /\ returned.output[i].command = Rewritten(cfg, returned.commands[i])
        /\ returned.output[i].outcome.type \in {"exit", "timeout"}
        /\ returned.output[i].outcome.type = "exit" <=>
               returned.output[i].outcome.exit_code # NoneOpt

\* the timeout_ms of the call in progress, or of the last call
TimeoutMsNow == IF batch.phase = "idle" THEN returned.timeout_ms ELSE batch.timeout_ms

\* timeout_ms taken as it is, else the default, else none (in thousandths of a second)
StatedTimeout ==
    IF TimeoutMsNow # NoneOpt THEN TimeoutMsNow ELSE cfg.default_timeout

\* timeout_ms raised to 0 when negative, else the default, else none
ClampedTimeout ==
    IF TimeoutMsNow # NoneOpt
    THEN {IF ms < 0 THEN 0 ELSE ms : ms \in TimeoutMsNow}
    ELSE cfg.default_timeout

\* the timeouts that a wait in progress uses and that a timeout outcome reports
TimeoutsUsed ==
    (IF batch.phase \in {"waiting", "draining"} THEN {batch.timeout} ELSE {})
        \cup {OutputsNow[i].stderr.message.timeout :
                i \in {j \in 1..Len(OutputsNow) : IsTimeout(OutputsNow[j])}}

\* C12 as stated: the wait uses timeout_ms converted to seconds whenever it is
\* given, else the configured default, else no timeout, and then never times out
C12_AsStated == \A t \in TimeoutsUsed : t = StatedTimeout

\* C12, amended: the wait uses timeout_ms converted to seconds, and 0 for a
\* negative timeout_ms, whenever it is given (even with a default configured),
\* else the configured default, else no timeout; without a timeout no timeout
\* outcome is produced
C12_TimeoutResolution ==
    /\ \A t \in TimeoutsUsed : t = ClampedTimeout
    /\ \A i \in 1..Len(OutputsNow) : IsTimeout(OutputsNow[i]) => ClampedTimeout # NoneOpt

C12_Witness ==
    /\ cfg.default_timeout = Some(5000)
    /\ returned.timeout_ms = Some(-500)
    /\ Len(returned.output) = 1
    /\ IsTimeout(returned.output[1])
    /\ returned.output[1].stderr.message.timeout = Some(0)

\* the processes of a call that are running
RunningOf(ps, call) == {pid \in 1..Len(ps) : ps[pid].call = call /\ ps[pid].state = "running"}

\* C13: a call never has two of its processes running; the step that spawns the
\* process of command i finds an outcome collected for every earlier command and
\* no other process of the call running; outcome i is that of command i
C13_Sequential ==
    [][/\ \A call \in 1..MaxCommands : Cardinality(RunningOf(procs', call)) <= 1
       /\ Len(procs') # Len(procs) =>
            /\ Len(procs') = Len(procs) + 1
            /\ batch'.pid = Len(procs')
            /\ procs'[batch'.pid].call = batch'.call
            /\ procs'[batch'.pid].index = Len(batch'.outputs) + 1
            /\ procs'[batch'.pid].command = Rewritten(cfg, batch'.commands[Len(batch'.outputs) + 1])
            /\ RunningOf(procs', batch'.call) = {batch'.pid}
       /\ \A i \in 1..Len(OutputsNow') :
            /\ Len(OutputsNow') <= Len(IF batch'.phase = "idle" THEN returned'.commands ELSE batch'.commands)
            /\ OutputsNow'[i].command =
                 Rewritten(cfg, (IF batch'.phase = "idle" THEN returned'.commands ELSE batch'.commands)[i])
            /\ \A pid \in ProcsOf(CallNow', i) : procs'[pid].command = OutputsNow'[i].command]_vars

C13_Witness ==
    /\ batch.phase = "waiting"
    /\ batch.commands = <<CmdBad, CmdMarker>>
    /\ batch.pid = 2
    /\ procs[1].call = procs[2].call
    /\ procs[1].state = "exited"
    /\ procs[2].state = "running"
    /\ Len(batch.outputs) = 1

\* the call that this step ends passed the containment check and the gate
PassedGate == CallEnds /\ last'.result \notin {"OutsideWorkspace", "Rejected"}

\* the path that the call ended by this step resolved to, as the step began
TargetOf(call) == _resolve(fs, call.op.path, FALSE).target

\* C14: an approved delete_file of an in-workspace path that does not exist
\* returns the Deleted result and leaves the filesystem as it was
C14_IdempotentDelete ==
    [][PassedGate /\ last'.op.type = "delete_file" /\ ~Exists(fs, TargetOf(last')) =>
            /\ last'.result = "Deleted"
            /\ fs' = fs]_vars

\* the diff of the model's updates applies to a file that begins with the line A
AtoBApplies(content) == content # <<>> /\ content[1] = "A"

BothDiffs(d1, d2) ==
    LET first == apply_diff(<<>>, DiffOrEmpty(d1), "create")
        second == apply_diff(first.content, DiffOrEmpty(d2), "default")
    IN [ok |-> first.ok /\ second.ok, content |-> second.content]

\* C16: an approved update_file(path, d2) that is the next call after a
\* create_file(path, d1) that succeeded leaves the content
\* apply(apply(empty, d1), d2) in the file
C16_RoundTrip ==
    [][PassedGate /\ last'.op.type = "update_file" /\ last.result = "Created"
            /\ last.relative = last'.relative =>
         LET both == BothDiffs(last.op.diff, last'.op.diff)
         IN /\ last'.result = "Updated" <=> both.ok
            /\ both.ok => fs'[TargetOf(last')].content = both.content]_vars

-----------------------------------------------------------------------------
(* Properties of the functions *)

Fingerprinted == calc.fn = "fingerprint" /\ calc.done

\* the two operations have the same type, path and diff text, an absent diff
\* being the empty text
SameText(a, b) ==
    a.type = b.type /\ a.path = b.path /\ DiffOrEmpty(a.diff) = DiffOrEmpty(b.diff)

\* C17 as stated: equal (type, path, diff) triples have equal digests, and
\* triples that differ in a field have different hash inputs
C17_AsStated ==
    Fingerprinted =>
        /\ calc.args[1] = calc.args[2] => calc.result[1].digest = calc.result[2].digest
        /\ calc.args[1] # calc.args[2] => calc.result[1].bytes # calc.result[2].bytes

\* C17, amended: operations with the same type, path and diff text (an absent
\* diff counting as the empty text) have equal hash inputs and digests, and
\* operations that differ in type, path or diff text have different hash inputs
C17_FingerprintInjective ==
    Fingerprinted =>
        /\ SameText(calc.args[1], calc.args[2]) =>
             /\ calc.result[1].bytes = calc.result[2].bytes
             /\ calc.result[1].digest = calc.result[2].digest
        /\ ~SameText(calc.args[1], calc.args[2]) =>
             calc.result[1].bytes # calc.result[2].bytes

C17_Witness ==
    /\ Fingerprinted
    /\ calc.args[1] = [type |-> "a", path |-> <<"a">>, diff |-> DiffOf(<<NUL>>)]
    /\ calc.args[2] = [type |-> "aa", path |-> <<>>, diff |-> DiffOf(<<NUL>>)]
    /\ calc.result[1].bytes # calc.result[2].bytes

Prepared_ == calc.fn = "_prepare_command" /\ calc.done

\* the commands given to the rewriter that match a scaffolding pattern and have
\* no yes flag, and those that name create-next-app and have no compiler flag
LacksYesFlag == {
    Chars(" NPM init "),
    Chars("npm create vite -- --template x"),
    Chars("npx create-next-app app"),
    Chars("npx create-next-app app -- --ts"),
    Chars("Yarn Create App -- A -- b"),
    Chars("pnpm create x")
}

LacksCompilerFlag == {
    Chars("npx create-next-app app"),
    Chars("npx create-next-app app -- --ts"),
    Chars("Create-Next-App app")
}

\* C18: a command that carries the flags it needs comes back trimmed and
\* otherwise unchanged, and rewriting what the rewriter returned changes nothing,
\* whatever the configuration
C18_RewriterIdempotent ==
    Prepared_ =>
        /\ calc.result.twice = calc.result.once
        /\ calc.args[3] \notin LacksYesFlag \cup LacksCompilerFlag =>
             calc.result.once = Strip(calc.args[3])

C18_Witness ==
    /\ Prepared_
    /\ calc.args[3] = Chars("npm create vite -- --template x")
    /\ calc.result.once = Chars("npm create vite --yes -- --template x")
    /\ calc.result.twice = calc.result.once

\* the preference and the mode that the constructor arguments and the
\* environment configure
ConfiguredUse ==
    IF calc.args[1].react_compiler_preference # NoneOpt
    THEN calc.args[1].react_compiler_preference = Some("use")
    ELSE calc.args[2].react_compiler = Some(" USE ")

ConfiguredNonInteractive ==
    IF calc.args[1].force_non_interactive # NoneOpt
    THEN calc.args[1].force_non_interactive = Some(TRUE)
    ELSE calc.args[2].non_interactive \in {NoneOpt, Some("1")}

\* the occurrences of w in s
Occurrences(s, w) == Cardinality({i \in 1..Len(s) : MatchesAt(s, i, w)})

\* the rewritten command has the flag of the configured preference, once, and
\* not the other flag
HasTheConfiguredFlag ==
    IF ConfiguredUse
    THEN /\ Occurrences(calc.result.once, Chars("--use-react-compiler")) = 1
         /\ Occurrences(calc.result.once, Chars("--no-use-react-compiler")) = 0
    ELSE /\ Occurrences(calc.result.once, Chars("--no-use-react-compiler")) = 1
         /\ Occurrences(calc.result.once, Chars("--use-react-compiler")) = 0

\* C19 as stated: whatever the configuration, a create-next-app command with
\* neither compiler flag is rewritten to hold exactly the configured one
C19_AsStated ==
    Prepared_ /\ calc.args[3] \in LacksCompilerFlag => HasTheConfiguredFlag

\* C19, amended: with force_non_interactive on, a create-next-app command with
\* neither compiler flag is rewritten to hold exactly one of them, that of the
\* configured preference (no when unset or invalid); with it off the command is
\* only trimmed and gets no flag
C19_CompilerFlag ==
    Prepared_ /\ calc.args[3] \in LacksCompilerFlag =>
        IF ConfiguredNonInteractive THEN HasTheConfiguredFlag
        ELSE calc.result.once = Strip(calc.args[3])

C19_Witness ==
    /\ Prepared_
    /\ calc.args[1].react_compiler_preference = NoneOpt
    /\ calc.args[2].react_compiler = Some(" USE ")
    /\ calc.args[3] = Chars("npx create-next-app app -- --ts")
    /\ calc.result.once = Chars("npx create-next-app app --yes --use-react-compiler -- --ts")

\* the plan handed to UpdatePlan, once the construction is over
Constructed == calc.fn = "UpdatePlan" /\ calc.done

AllCompleted(steps) == \A i \in DOMAIN steps : steps[i].status = "completed"

OneInProgress(steps) == CountOf(steps, "in_progress") = 1

\* C20: UpdatePlan accepts a non-empty list of steps exactly when every step
\* is completed or exactly one step is in_progress, every other list raises a
\* validation error, and a plan that run() has stored as current_plan has
\* exactly one step in_progress unless all its steps are completed
C20_PlanValidation ==
    Constructed =>
        /\ calc.args[1] # <<>> =>
              (calc.result.error = None <=>
                  AllCompleted(calc.args[1]) \/ OneInProgress(calc.args[1]))
        /\ calc.result.error # None => calc.result.error = "ValueError" /\ ~calc.result.ran
        /\ calc.result.ran =>
              AllCompleted(The(calc.result.steps)) \/ OneInProgress(The(calc.result.steps))
        /\ calc.result.current_plan # NoneOpt =>
              /\ calc.result.ran
              /\ The(calc.result.current_plan) = calc.args[1]
              /\ AllCompleted(calc.args[1]) \/ OneInProgress(calc.args[1])

\* a plan of three steps, one of them in progress, was accepted, run and
\* stored; the plans of the tests 4 and 5 are in PlanSteps and are refused
C20_Witness ==
    /\ Constructed
    /\ calc.result.ran
    /\ calc.result.current_plan # NoneOpt
    /\ Len(calc.args[1]) = 3
    /\ calc.args[1][1].status = "completed"
    /\ calc.args[1][2].status = "in_progress"
    /\ calc.args[1][3].status = "pending"
    /\ ValidateSteps(<<[description |-> "step", status |-> "completed"],
                       [description |-> "step", status |-> "pending"],
                       [description |-> "step", status |-> "pending"]>>) = "ValueError"
    /\ ValidateSteps(<<[description |-> "step", status |-> "in_progress"],
                       [description |-> "step", status |-> "in_progress"],
                       [description |-> "step", status |-> "pending"]>>) = "ValueError"

\* the trimmed command, cut at its first " -- ": what is before it, and the
\* separator with what follows (nothing when it has no separator)
BeforeSeparator(c) ==
    IF Find(c, Chars(" -- ")) = 0 THEN c ELSE SubSeq(c, 1, Find(c, Chars(" -- ")) - 1)

FromSeparator(c) ==
    IF Find(c, Chars(" -- ")) = 0 THEN <<>> ELSE SubSeq(c, Find(c, Chars(" -- ")), Len(c))

\* the mode is on and the command matches a scaffolding pattern without a yes flag
GetsYes == ConfiguredNonInteractive /\ calc.args[3] \in LacksYesFlag

\* no --yes is added when the mode is off or the command carries a yes flag
NoYesAdded ==
    Occurrences(calc.result.once, Chars("--yes")) = Occurrences(calc.args[3], Chars("--yes"))

CompilerFlagAdded ==
    IF ConfiguredNonInteractive /\ calc.args[3] \in LacksCompilerFlag
    THEN Chars(" ") \o (IF ConfiguredUse THEN Chars("--use-react-compiler")
                        ELSE Chars("--no-use-react-compiler"))
    ELSE <<>>

Detected == calc.fn = "_is_backgrounded" /\ calc.done

\* the last character of the command that is not whitespace is an ampersand
TrailingAmpersand(command) ==
    \E i \in 1..Len(command) :
        /\ command[i] = "&"
        /\ \A j \in (i + 1)..Len(command) : command[j] \in Whitespace

\* C22: a command is taken as backgrounded exactly when its last character
\* that is not whitespace is an ampersand (with or without nohup), so a
\* dev-server command whose ampersands are not trailing gets the corrective
\* outcome and is not spawned
C22_Backgrounded ==
    Detected =>
        /\ calc.result.is_backgrounded <=> TrailingAmpersand(calc.args[1])
        /\ calc.result.requires_background /\ ~TrailingAmpersand(calc.args[1]) =>
              calc.result.corrective

-----------------------------------------------------------------------------
(* Further properties of the WorkspaceEditor *)

\* the call that this step starts: the one now at the prompt, or the one that
\* ran to its end
Started == IF pending'.editor # None THEN pending' ELSE last'

\* C23: a prompt answered with anything but y/yes leaves the approval set as
\* it was, without the fingerprint of the operation, and the same operation
\* issued again on the editor with auto-approve off prompts again
C23_DenialNotRemembered ==
    [][/\ pending.editor # None /\ pending'.editor = None /\ last'.answer \notin Affirmative =>
            approved' = approved /\ pending.fp \notin approved'
       /\ (/\ last.result = "Rejected"
           /\ nOps' = nOps + 1
           /\ Started.op = last.op
           /\ ~autoApprove[Started.editor]) =>
            pending'.editor # None /\ pending'.fp = FpOf(last)]_vars

\* the operation that was denied is at the prompt again
C23_Witness ==
    /\ last.result = "Rejected" /\ last.prompted /\ last.answer = <<"n">>
    /\ pending.editor = "manual"
    /\ pending.op = last.op
    /\ pending.op = Op("update_file", P_f, AtoB)
    /\ pending.fp \notin approved

\* the paths that this step creates, removes or rewrites
Changed == {p \in DOMAIN fs \cup DOMAIN fs' : ~(p \in DOMAIN fs /\ p \in DOMAIN fs' /\ fs[p] = fs'[p])}

\* the absolute path of the workspace-relative path that was fingerprinted and
\* shown for the call
Shown(call) == WorkspaceRoot \o Parts(call.relative)

\* C24: the step that ends a call changes only the file at the path that was
\* fingerprinted and shown, and the directories above it, whatever another
\* process did to the links of the workspace while the prompt was waiting
C24_MutatesWhatWasShown ==
    [][CallEnds => \A p \in Changed : IsPrefix(p, Shown(last'))]_vars

\* the edit of the call was attempted and failed
EditFailed(call) ==
    call.editor # None /\ call.result \notin {"Created", "Updated", "Deleted", "Rejected", "OutsideWorkspace"}

\* C25: the fingerprint of a call that passes the gate is in the approval set
\* when the call ends, also when its edit fails; an update_file that failed
\* after the gate and is issued again on the editor with auto-approve off runs
\* without a prompt; a call whose path leads out of the workspace fails
\* without a prompt and leaves the approval set as it was
C25_ApprovalSurvivesFailure ==
    [][/\ CallEnds /\ last'.result \notin {"Rejected", "OutsideWorkspace"} =>
            FpOf(last') \in approved'
       /\ (/\ EditFailed(last) /\ last.op.type = "update_file"
           /\ nOps' = nOps + 1
           /\ Started.op = last.op
           /\ ~autoApprove[Started.editor]) =>
            /\ pending'.editor = None
            /\ ~last'.prompted
            /\ approved' = approved
       /\ nOps' = nOps + 1 /\ Started.op.path \in Escaping(fs) =>
            /\ pending'.editor = None
            /\ last'.result = "OutsideWorkspace" /\ ~last'.prompted
            /\ approved' = approved]_vars

\* an update_file of a missing file passed the gate and failed, and the same
\* update_file then ran on the editor with auto-approve off without a prompt,
\* and failed again
C25_Witness ==
    /\ ~autoApprove["manual"]
    /\ nOps = 2
    /\ last.editor = "manual" /\ ~last.prompted
    /\ last.op = Op("update_file", P_f, AtoB)
    /\ EditFailed(last)
    /\ approved = {FpOf(last)}
    /\ ~Exists(fs, <<"w", "f">>)

====
